---- MODULE Spec2Model ----
(***************************************************************************)
(* Projectile simulation of basic_game (src/bullet.rs, src/player.rs,      *)
(* src/wall.rs): spawning of bullets, swept collision against the wall,    *)
(* debris on impact, lifetime expiry, and Bevy's deferred command buffers. *)
(*                                                                         *)
(* Numbers.  f32 values are modelled in fixed point:                       *)
(*   - positions and speeds in whole world units (units, units/second);    *)
(*   - unit vectors (Transform::right, hit normals, normalize() results)   *)
(*     in 1/Scale;                                                         *)
(*   - times (Time::delta_seconds, lifetimes) in 1/Second of a second.     *)
(* Divisions round to nearest.  The inputs are chosen so that the bullet   *)
(* arithmetic is exact; f32 rounding itself is not modelled.               *)
(*                                                                         *)
(* Scheduling.  shoot, Bullet::move_bullet, Bullet::cleanup and            *)
(* despawn_after_lifetime are added to the same stage with no .after() or  *)
(* .before() between them, so inside a tick they run once each in any      *)
(* order.  Commands (spawn, despawn) are buffered per system and applied   *)
(* at the end of the stage.                                                *)
(***************************************************************************)
EXTENDS Integers, Sequences, FiniteSets, TLC

VARIABLES
    bullets,      \* entity id -> Bullet + Transform components (live bullets)
    debris,       \* entity id -> Lifetime + Transform components (live debris)
    queue,        \* system name -> its buffered Commands of this tick
    ran,          \* the systems that have run in the current tick
    delta,        \* Time::delta_seconds() of the current tick
    shots,        \* number of bullets fired so far (= last bullet entity id)
    nextDebris,   \* next free debris entity id
    debrisCount,  \* history: bullet id -> number of debris spawns it requested
    reflection,   \* last evaluation of the debris_dir expression
    particle      \* last particle initialised by init_position_cone3d

vars == <<bullets, debris, queue, ran, delta, shots, nextDebris, debrisCount,
          reflection, particle>>

simVars == <<bullets, debris, queue, ran, delta, shots, nextDebris, debrisCount>>

-----------------------------------------------------------------------------
(* Program constants and resolutions *)

SPEED == 1500

BulletLifetime == 100

DebrisLifetime == 500

SpawnOffset == 50

Scale == 1000

Second == 100

\* Total number of bullets fired in a behaviour.
MaxShots == 1

\* Frame times Time::delta_seconds() may report (0.1 s, 0.2 s, 0.3 s).
Deltas == {10, 20, 30}

\* Collider::cuboid(250, 25) at (0, -100).
Wall == [cx |-> 0, cy |-> -100, hx |-> 250, hy |-> 25]

Systems == {"shoot", "move_bullet", "cleanup", "despawn_after_lifetime"}

\* Order of the systems in the schedule: PlayerPlugin is added before
\* BulletPlugin, and inside BulletPlugin in the order of add_system.
SystemOrder == <<"shoot", "move_bullet", "cleanup", "despawn_after_lifetime">>

-----------------------------------------------------------------------------
(* Vector arithmetic *)

Vec(x, y) == [x |-> x, y |-> y]

Abs(a) == IF a < 0 THEN -a ELSE a

Sgn(a) == IF a < 0 THEN -1 ELSE IF a > 0 THEN 1 ELSE 0

\* a / b rounded to nearest (b > 0), symmetric around zero.
RoundDiv(a, b) == Sgn(a) * ((2 * Abs(a) + b) \div (2 * b))

RECURSIVE ISqrtIter(_, _, _)
ISqrtIter(n, lo, hi) ==
    IF lo >= hi THEN lo
    ELSE LET mid == (lo + hi + 1) \div 2
         IN  IF mid * mid <= n THEN ISqrtIter(n, mid, hi)
                               ELSE ISqrtIter(n, lo, mid - 1)

\* Square root rounded to nearest.
ISqrt(n) ==
    LET r == ISqrtIter(n, 0, 46340)
    IN  IF n - r * r > r THEN r + 1 ELSE r

Add(a, b) == Vec(a.x + b.x, a.y + b.y)

Sub(a, b) == Vec(a.x - b.x, a.y - b.y)

Neg(a) == Vec(-a.x, -a.y)

\* Vec2::length
Length(v) == ISqrt(v.x * v.x + v.y * v.y)

\* Vec2::normalize: the result is in 1/Scale.
Normalize(v) ==
    LET len == Length(v)
    IN  Vec(RoundDiv(v.x * Scale, len), RoundDiv(v.y * Scale, len))

\* Vec2::dot of two vectors in 1/Scale; the result is in 1/Scale.
Dot(a, b) == RoundDiv(a.x * b.x + a.y * b.y, Scale)

\* u * s for a vector u in 1/Scale and a scalar s: the result has s's unit.
Times(u, s) == Vec(RoundDiv(u.x * s, Scale), RoundDiv(u.y * s, Scale))

-----------------------------------------------------------------------------
(* Collision query against the wall *)

WallLo == Vec(Wall.cx - Wall.hx, Wall.cy - Wall.hy)

WallHi == Vec(Wall.cx + Wall.hx, Wall.cy + Wall.hy)

InWall(p) ==
    /\ WallLo.x <= p.x /\ p.x <= WallHi.x
    /\ WallLo.y <= p.y /\ p.y <= WallHi.y

\* Times of impact are fractions <<n, d>> of a second with d > 0.
FLess(a, b) == a[1] * b[2] < b[1] * a[2]

FLeq(a, b) == a[1] * b[2] <= b[1] * a[2]

\* Time at which the ray o + v*t enters / leaves the slab lo <= c <= hi (v # 0).
SlabNear(o, v, lo, hi) == IF v > 0 THEN <<lo - o, v>> ELSE <<o - hi, -v>>

SlabFar(o, v, lo, hi) == IF v > 0 THEN <<hi - o, v>> ELSE <<o - lo, -v>>

NoHit == [hit |-> FALSE, point |-> Vec(0, 0), normal |-> Vec(0, 0)]

\* Mutant of MaxToi: the factor bullet.dir.length() is forgotten.
MaxToiNoLength(dir, dt) == <<dt, SPEED * Second>>

\* max_toi argument of the query: bullet.dir.length() * delta_seconds / SPEED,
\* as a fraction of a second.
MaxToi(dir, dt) == <<Length(dir) * dt, SPEED * Second>>

\* RapierContext::cast_ray_and_get_normal(origin, dir, max_toi, solid = true)
\* against the wall: the nearest point origin + dir * toi, 0 <= toi <= max_toi,
\* of the cuboid, with the outward normal of the face it lies on.  An origin
\* inside the solid cuboid hits at toi = 0 with a zero normal.
CastRay(o, v, maxToi) ==
    LET useX  == v.x # 0
        useY  == v.y # 0
        nx    == SlabNear(o.x, v.x, WallLo.x, WallHi.x)
        fx    == SlabFar(o.x, v.x, WallLo.x, WallHi.x)
        ny    == SlabNear(o.y, v.y, WallLo.y, WallHi.y)
        fy    == SlabFar(o.y, v.y, WallLo.y, WallHi.y)
        inX   == WallLo.x <= o.x /\ o.x <= WallHi.x
        inY   == WallLo.y <= o.y /\ o.y <= WallHi.y
        xNear == useX /\ (~useY \/ FLeq(ny, nx))
        near  == IF xNear THEN nx ELSE ny
        far   == IF useX /\ (~useY \/ FLeq(fx, fy)) THEN fx ELSE fy
        at    == Vec(o.x + RoundDiv(v.x * near[1], near[2]),
                     o.y + RoundDiv(v.y * near[1], near[2]))
    IN  IF InWall(o) THEN [hit |-> TRUE, point |-> o, normal |-> Vec(0, 0)]
        ELSE IF ~useX /\ ~useY THEN NoHit
        ELSE IF (~useX /\ ~inX) \/ (~useY /\ ~inY) THEN NoHit
        ELSE IF FLess(far, near) \/ near[1] < 0 THEN NoHit
        ELSE IF ~FLeq(near, maxToi) THEN NoHit
        ELSE [hit    |-> TRUE,
              point  |-> IF xNear THEN Vec(IF v.x > 0 THEN WallLo.x ELSE WallHi.x, at.y)
                                  ELSE Vec(at.x, IF v.y > 0 THEN WallLo.y ELSE WallHi.y),
              normal |-> IF xNear THEN Vec(-Sgn(v.x) * Scale, 0)
                                  ELSE Vec(0, -Sgn(v.y) * Scale)]

-----------------------------------------------------------------------------
(* Components and commands *)

\* Mutant of Reflect: the factor 2 is forgotten (a projection onto the
\* surface instead of a reflection).
ReflectNoFactor(d, n) ==
    LET u == Normalize(d)
    IN  Sub(u, Times(n, Dot(u, n)))

\* debris_dir = normalize(d) - 2 * dot(normalize(d), n) * n
Reflect(d, n) ==
    LET u == Normalize(d)
        k == 2 * Dot(u, n)
    IN  Sub(u, Times(n, k))

\* Quat::from_rotation_z(atan2(r.y, r.x) - PI/2): the rotation that takes the
\* local +Y axis to the direction of r.  It is represented by the images of
\* the local axes (both in 1/Scale).
RotationTo(r) ==
    LET u == Normalize(r)
    IN  [xAxis |-> Vec(u.y, -u.x), yAxis |-> u]

\* Bullet::spawn.  origin, aim and flown are history fields: where and with
\* which aim the bullet was fired, and the sum of the frame times of its
\* non-colliding motion ticks.
BulletSpawn(pos, dir) ==
    [lifetime    |-> BulletLifetime,
     dir         |-> Times(Normalize(dir), SPEED),
     translation |-> pos,
     origin      |-> pos,
     aim         |-> dir,
     flown       |-> 0]

\* The bundle spawned on impact.  src is a history field: the bullet.
DebrisSpawn(point, debrisDir, src) ==
    [translation |-> point,
     rotation    |-> RotationTo(debrisDir),
     lifetime    |-> DebrisLifetime,
     src         |-> src]

BulletEntity(id) == [kind |-> "bullet", id |-> id]

DebrisEntity(id) == [kind |-> "debris", id |-> id]

NoComp == [lifetime |-> 0]

Spawn(entity, comp) == [op |-> "spawn", entity |-> entity, comp |-> comp]

Despawn(entity) == [op |-> "despawn", entity |-> entity, comp |-> NoComp]

EmptyQueue == [s \in Systems |-> <<>>]

\* The transforms the player can have when shoot reads them: translation in
\* units, Transform::right() in 1/Scale.
PlayerTransforms ==
    { [translation |-> Vec(-50, 0),   right |-> Vec(-1000, 0)],
      [translation |-> Vec(0, 25),    right |-> Vec(0, 1000)],
      [translation |-> Vec(0, 75),    right |-> Vec(0, 1000)],
      [translation |-> Vec(390, 445), right |-> Vec(600, 800)],
      [translation |-> Vec(0, -50),   right |-> Vec(0, 1000)],
      [translation |-> Vec(0, 1550),  right |-> Vec(0, 1000)],
      [translation |-> Vec(0, 300),   right |-> Vec(1000, 0)] }

NoReflection == [d |-> Vec(0, 0), n |-> Vec(0, 0), r |-> Vec(0, 0)]

NoParticle == [position |-> <<-1, -1, -1>>, velocity |-> <<0, 0, 0>>, dir |-> <<0, 0, 0>>]

-----------------------------------------------------------------------------
(* Applying the command buffers at the end of the stage *)

RemoveKey(f, k) == [e \in DOMAIN f \ {k} |-> f[e]]

Insert(f, k, v) == [e \in DOMAIN f \cup {k} |-> IF e = k THEN v ELSE f[e]]

\* One command on the world w = [bullets, debris].  Despawning an entity that
\* does not exist changes nothing.
ApplyCommand(w, c) ==
    IF c.op = "spawn"
    THEN IF c.entity.kind = "bullet"
         THEN [w EXCEPT !.bullets = Insert(w.bullets, c.entity.id, c.comp)]
         ELSE [w EXCEPT !.debris = Insert(w.debris, c.entity.id, c.comp)]
    ELSE IF c.entity.kind = "bullet"
         THEN [w EXCEPT !.bullets = RemoveKey(w.bullets, c.entity.id)]
         ELSE [w EXCEPT !.debris = RemoveKey(w.debris, c.entity.id)]

RECURSIVE ApplyCommands(_, _)
ApplyCommands(w, cmds) ==
    IF cmds = <<>> THEN w
    ELSE ApplyCommands(ApplyCommand(w, Head(cmds)), Tail(cmds))

AllCommands(q) ==
    q[SystemOrder[1]] \o q[SystemOrder[2]] \o q[SystemOrder[3]] \o q[SystemOrder[4]]

-----------------------------------------------------------------------------
(* Iteration order of a query: ascending entity id *)

Min(S) == CHOOSE m \in S : \A x \in S : m <= x

RECURSIVE Sorted(_)
Sorted(S) == IF S = {} THEN <<>> ELSE <<Min(S)>> \o Sorted(S \ {Min(S)})

-----------------------------------------------------------------------------
(* Systems *)

Init ==
    /\ bullets = <<>>
    /\ debris = <<>>
    /\ queue = EmptyQueue
    /\ ran = {}
    /\ delta \in Deltas
    /\ shots = 0
    /\ nextDebris = 1
    /\ debrisCount = <<>>
    /\ reflection = NoReflection
    /\ particle = NoParticle

\* shoot (player.rs): on a just_pressed edge, Bullet::spawn at
\* translation - 50 * right, aimed along -right.
Shoot ==
    /\ "shoot" \notin ran
    /\ ran' = ran \cup {"shoot"}
    /\ \E pressed \in (IF shots < MaxShots THEN BOOLEAN ELSE {FALSE}) :
         IF pressed
         THEN \E tf \in PlayerTransforms :
                /\ shots' = shots + 1
                /\ queue' = [queue EXCEPT !["shoot"] =
                     <<Spawn(BulletEntity(shots + 1),
                             BulletSpawn(Sub(tf.translation, Times(tf.right, SpawnOffset)),
                                         Neg(tf.right)))>>]
                /\ debrisCount' = Insert(debrisCount, shots + 1, 0)
         ELSE UNCHANGED <<shots, queue, debrisCount>>
    /\ UNCHANGED <<bullets, debris, delta, nextDebris, reflection, particle>>

\* The swept collision query of one bullet.
Sweep(b, dt) == CastRay(b.translation, b.dir, MaxToi(b.dir, dt))

\* Mutant of Advance: the position is advanced by dir per frame, not by
\* dir * delta_seconds.
AdvanceNoDelta(b, dt) ==
    [b EXCEPT !.translation = Add(b.translation, b.dir),
              !.lifetime    = b.lifetime - dt,
              !.flown       = b.flown + dt]

\* The else branch of move_bullet: advance and age.
Advance(b, dt) ==
    [b EXCEPT !.translation = Add(b.translation,
                                  Vec((b.dir.x * dt) \div Second, (b.dir.y * dt) \div Second)),
              !.lifetime    = b.lifetime - dt,
              !.flown       = b.flown + dt]

\* Mutant of HitCommands: the bullet is not despawned on impact.
HitCommandsNoDespawn(e, b, hit, did) ==
    << Spawn(DebrisEntity(did), DebrisSpawn(hit.point, Reflect(b.dir, hit.normal), e)) >>

\* The commands of the hit branch of move_bullet for bullet e, the debris
\* entity getting id did.
HitCommands(e, b, hit, did) ==
    << Spawn(DebrisEntity(did), DebrisSpawn(hit.point, Reflect(b.dir, hit.normal), e)),
       Despawn(BulletEntity(e)) >>

RECURSIVE MoveCommands(_, _, _, _)
MoveCommands(ids, bs, dt, did) ==
    IF ids = <<>> THEN <<>>
    ELSE LET e   == Head(ids)
             hit == Sweep(bs[e], dt)
         IN  IF hit.hit
             THEN HitCommands(e, bs[e], hit, did) \o MoveCommands(Tail(ids), bs, dt, did + 1)
             ELSE MoveCommands(Tail(ids), bs, dt, did)

\* Bullet::move_bullet
MoveBullet ==
    /\ "move_bullet" \notin ran
    /\ ran' = ran \cup {"move_bullet"}
    /\ LET hitIds == {e \in DOMAIN bullets : Sweep(bullets[e], delta).hit}
       IN  /\ bullets' = [e \in DOMAIN bullets |->
                            IF e \in hitIds THEN bullets[e] ELSE Advance(bullets[e], delta)]
           /\ queue' = [queue EXCEPT !["move_bullet"] =
                            MoveCommands(Sorted(DOMAIN bullets), bullets, delta, nextDebris)]
           /\ nextDebris' = nextDebris + Cardinality(hitIds)
           /\ debrisCount' = [e \in DOMAIN debrisCount |->
                                IF e \in hitIds THEN debrisCount[e] + 1 ELSE debrisCount[e]]
    /\ UNCHANGED <<debris, delta, shots, reflection, particle>>

RECURSIVE CleanupCommands(_, _)
CleanupCommands(ids, bs) ==
    IF ids = <<>> THEN <<>>
    ELSE (IF bs[Head(ids)].lifetime <= 0 THEN <<Despawn(BulletEntity(Head(ids)))>> ELSE <<>>)
         \o CleanupCommands(Tail(ids), bs)

\* Bullet::cleanup
Cleanup ==
    /\ "cleanup" \notin ran
    /\ ran' = ran \cup {"cleanup"}
    /\ queue' = [queue EXCEPT !["cleanup"] = CleanupCommands(Sorted(DOMAIN bullets), bullets)]
    /\ UNCHANGED <<bullets, debris, delta, shots, nextDebris, debrisCount, reflection, particle>>

\* lifetime.0 -= time.delta_seconds()
Age(d, dt) == [d EXCEPT !.lifetime = d.lifetime - dt]

\* Mutant of ExpiryCommands: the test is lifetime < 0 instead of <= 0.
RECURSIVE ExpiryCommandsStrict(_, _)
ExpiryCommandsStrict(ids, ds) ==
    IF ids = <<>> THEN <<>>
    ELSE (IF ds[Head(ids)].lifetime < 0 THEN <<Despawn(DebrisEntity(Head(ids)))>> ELSE <<>>)
         \o ExpiryCommandsStrict(Tail(ids), ds)

\* The expiry test of despawn_after_lifetime, in query order.
RECURSIVE ExpiryCommands(_, _)
ExpiryCommands(ids, ds) ==
    IF ids = <<>> THEN <<>>
    ELSE (IF ds[Head(ids)].lifetime <= 0 THEN <<Despawn(DebrisEntity(Head(ids)))>> ELSE <<>>)
         \o ExpiryCommands(Tail(ids), ds)

\* despawn_after_lifetime
DespawnAfterLifetime ==
    /\ "despawn_after_lifetime" \notin ran
    /\ ran' = ran \cup {"despawn_after_lifetime"}
    /\ debris' = [e \in DOMAIN debris |-> Age(debris[e], delta)]
    /\ queue' = [queue EXCEPT !["despawn_after_lifetime"] =
                    ExpiryCommands(Sorted(DOMAIN debris), debris')]
    /\ UNCHANGED <<bullets, delta, shots, nextDebris, debrisCount, reflection, particle>>

\* End of the stage: the command buffers are applied in schedule order and the
\* next frame starts with a new frame time.
EndTick ==
    /\ ran = Systems
    /\ LET w == ApplyCommands([bullets |-> bullets, debris |-> debris], AllCommands(queue))
       IN  /\ bullets' = w.bullets
           /\ debris' = w.debris
    /\ queue' = EmptyQueue
    /\ ran' = {}
    /\ delta' \in Deltas
    /\ UNCHANGED <<shots, nextDebris, debrisCount, reflection, particle>>

Next ==
    \/ Shoot
    \/ MoveBullet
    \/ Cleanup
    \/ DespawnAfterLifetime
    \/ EndTick

Spec == Init /\ [][Next]_vars

-----------------------------------------------------------------------------
(* The reflection computed on impact, as a function of its inputs *)

\* Incoming directions (any length, in 1/Scale) and unit normals (in 1/Scale).
ReflectDirs ==
    {Vec(x * Scale, y * Scale) : x \in -2 .. 2, y \in -2 .. 2} \ {Vec(0, 0)}

UnitNormals ==
    { Vec(0, 1000), Vec(0, -1000), Vec(1000, 0), Vec(-1000, 0),
      Vec(600, 800), Vec(-600, 800), Vec(600, -800), Vec(-600, -800),
      Vec(800, 600), Vec(-800, 600), Vec(800, -600), Vec(-800, -600) }

\* One evaluation of the debris_dir expression of move_bullet.
EvalReflect ==
    /\ \E d \in ReflectDirs, n \in UnitNormals :
          reflection' = [d |-> d, n |-> n, r |-> Reflect(d, n)]
    /\ UNCHANGED <<simVars, particle>>

SpecReflect == Init /\ [][EvalReflect]_vars

-----------------------------------------------------------------------------
(* The cone sampler: init_position_cone3d, per emitted particle *)

\* The debris effect's MyPositionCone3dModifier.
Cone == [height |-> 100, base_radius |-> 50, top_radius |-> 0,
         speed_min |-> 100, speed_max |-> 500]

RECURSIVE ICbrtIter(_, _, _)
ICbrtIter(n, lo, hi) ==
    IF lo >= hi THEN lo
    ELSE LET mid == (lo + hi + 1) \div 2
         IN  IF mid * mid * mid <= n THEN ICbrtIter(n, mid, hi)
                                     ELSE ICbrtIter(n, lo, mid - 1)

\* pow(a, 1.0 / 3.0) for a in 1/Scale; the result is in 1/Scale.
Cbrt(a) == ICbrtIter(a * Scale * Scale, 0, 1290)

\* sqrt(a) for a in 1/Scale; the result is in 1/Scale.
Sqrt(a) == ISqrt(a * Scale)

\* cos and sin of u * tau for u in eighths of a turn (u in 1/Scale).
CosSin(u) ==
    CASE u = 0   -> [cos |-> 1000,  sin |-> 0]
      [] u = 125 -> [cos |-> 707,   sin |-> 707]
      [] u = 250 -> [cos |-> 0,     sin |-> 1000]
      [] u = 375 -> [cos |-> -707,  sin |-> 707]
      [] u = 500 -> [cos |-> -1000, sin |-> 0]
      [] u = 625 -> [cos |-> -707,  sin |-> -707]
      [] u = 750 -> [cos |-> 0,     sin |-> -1000]
      [] u = 875 -> [cos |-> 707,   sin |-> -707]

Length3(v) == ISqrt(v[1] * v[1] + v[2] * v[2] + v[3] * v[3])

\* normalize of a 3D vector: the result is in 1/Scale.
Normalize3(v) ==
    LET len == Length3(v)
    IN  <<RoundDiv(v[1] * Scale, len), RoundDiv(v[2] * Scale, len), RoundDiv(v[3] * Scale, len)>>

\* transform * vec4(v, 0.0): the emitter's rotation applied to v (w = 0 drops
\* the translation).
Rotate(rot, v) ==
    << RoundDiv(rot.xAxis.x * v[1] + rot.yAxis.x * v[2], Scale),
       RoundDiv(rot.xAxis.y * v[1] + rot.yAxis.y * v[2], Scale),
       v[3] >>

\* The body of init_position_cone3d for the random numbers u1, u2, u3 (the
\* three rand() calls, in 1/Scale).  The emit speed is the literal 0.0: the
\* modifier's speed expression is substituted into the comment after it.
InitPositionCone3d(cone, rot, u1, u2, u3) ==
    LET h0      == cone.height
        alpha_h == Cbrt(u1)
        h       == RoundDiv(h0 * alpha_h, Scale)
        rt      == cone.top_radius
        rb      == cone.base_radius
        r0      == rt + RoundDiv((rb - rt) * alpha_h, Scale)
        alpha_r == Sqrt(u2)
        r       == RoundDiv(r0 * alpha_r, Scale)
        cost    == CosSin(u3).cos
        sint    == CosSin(u3).sin
        p       == <<RoundDiv(r * cost, Scale), h, RoundDiv(r * sint, Scale)>>
        rb2     == RoundDiv(rb * alpha_r, Scale)
        pb      == <<RoundDiv(rb2 * cost, Scale), h0, RoundDiv(rb2 * sint, Scale)>>
        dir     == Rotate(rot, Normalize3(<<pb[1] - p[1], pb[2] - p[2], pb[3] - p[3]>>))
        speed   == 0
    IN  [position |-> Rotate(rot, <<p[1] * Scale, p[2] * Scale, p[3] * Scale>>),
         velocity |-> <<RoundDiv(dir[1] * speed, Scale), RoundDiv(dir[2] * speed, Scale),
                        RoundDiv(dir[3] * speed, Scale)>>,
         dir      |-> dir]

\* Values of rand() (in 1/Scale; rand() < 1).
RandHeights == {0, 125, 512, 729}

RandRadii == {0, 250, 640, 810}

RandAngles == {0, 125, 250, 375, 500, 625, 750, 875}

\* Rotations a debris emitter can have: reflections off the top of the wall.
EmitterRotations ==
    { RotationTo(Reflect(Vec(0, -SPEED), Vec(0, Scale))),
      RotationTo(Reflect(Vec(-900, -1200), Vec(0, Scale))) }

\* The effect initialises one particle.
EmitParticle ==
    /\ \E rot \in EmitterRotations, u1 \in RandHeights, u2 \in RandRadii, u3 \in RandAngles :
          particle' = InitPositionCone3d(Cone, rot, u1, u2, u3)
    /\ UNCHANGED <<simVars, reflection>>

SpecCone == Init /\ [][EmitParticle]_vars

-----------------------------------------------------------------------------
(* Properties of the projectile simulation (specification Spec) *)

Range(s) == {s[i] : i \in DOMAIN s}

\* Number of despawn requests for an entity among this tick's commands.
DespawnRequests(entity) ==
    Cardinality({i \in DOMAIN AllCommands(queue) :
                    AllCommands(queue)[i] = Despawn(entity)})

\* The debris spawns requested by this tick's move_bullet.
QueuedDebris(q) ==
    {c \in Range(q["move_bullet"]) : c.op = "spawn" /\ c.entity.kind = "debris"}

\* C1: no tick begins with a live projectile whose remaining lifetime is <= 0
\* (a projectile is destroyed at the end of the tick in which its lifetime
\* becomes <= 0).
C1_NoExpiredBulletAtTickStart ==
    ran = {} => \A e \in DOMAIN bullets : bullets[e].lifetime > 0

\* The other half of C1, which the code satisfies: a live projectile's
\* remaining lifetime never increases.
LifetimeNonIncreasing ==
    [][\A e \in DOMAIN bullets \cap DOMAIN bullets' :
          bullets'[e].lifetime <= bullets[e].lifetime]_vars

\* The points of a path are taken every PathGrain units, which is half the
\* wall's thickness.
PathGrain == Wall.hy

\* A step of PathGrain units along the direction in which bullet b was fired.
PathStep(b) == Vec((b.aim.x * PathGrain) \div Scale, (b.aim.y * PathGrain) \div Scale)

PathPoint(o, step, k) == Vec(o.x + step.x * k, o.y + step.y * k)

\* Some point of the wall lies on b's path within the distance SPEED * dt.
ObstacleWithin(b, dt) ==
    \E k \in 0 .. ((SPEED * dt) \div (Second * PathGrain)) :
        InWall(PathPoint(b.translation, PathStep(b), k))

\* b has moved and some point of the wall lies between its origin and its
\* position.
PastObstacle(b) ==
    /\ b.flown > 0
    /\ \E k \in 0 .. ((SPEED * b.flown) \div (Second * PathGrain)) :
          InWall(PathPoint(b.origin, PathStep(b), k))

\* C2: no tunneling.  Whenever move_bullet runs, every projectile with a point
\* of the obstacle within SPEED * delta_t along its direction registers a hit
\* (debris and despawn requested) and is not advanced; and no step that
\* changes the projectiles leaves one of them past the obstacle on its path
\* (so, there being no projectile initially, none is ever past it).
C2_NoTunneling ==
    [][ /\ ("move_bullet" \notin ran /\ "move_bullet" \in ran') =>
              \A e \in DOMAIN bullets :
                  ObstacleWithin(bullets[e], delta) =>
                      /\ bullets'[e] = bullets[e]
                      /\ Despawn(BulletEntity(e)) \in Range(queue'["move_bullet"])
                      /\ \E c \in QueuedDebris(queue') : c.comp.src = e
        /\ bullets' # bullets => \A e \in DOMAIN bullets' : ~PastObstacle(bullets'[e])
      ]_vars

\* C2 witness: move_bullet has run with a sweep distance of 150 (delta_t =
\* 0.1 s) on a projectile 100 units above the 50 units thick wall, and the
\* hit is registered.
C2_Witness ==
    /\ "move_bullet" \in ran
    /\ delta = 10
    /\ \E e \in DOMAIN bullets :
          /\ bullets[e].dir = Vec(0, -SPEED)
          /\ bullets[e].translation.y - WallHi.y = 100
          /\ WallHi.y - WallLo.y < (SPEED * delta) \div Second
          /\ Despawn(BulletEntity(e)) \in Range(queue["move_bullet"])

\* Bullet b flies straight down and is d units above the wall's top face.
AboveWall(b, d) ==
    /\ b.dir = Vec(0, -SPEED)
    /\ WallLo.x <= b.translation.x /\ b.translation.x <= WallHi.x
    /\ b.translation.y - WallHi.y = d

\* C3: a projectile 50 units from the wall collides in its first motion tick
\* of delta_t = 0.1 s: that tick requests its despawn and exactly one debris
\* effect, placed at the impact point on the wall's face with a lifetime of
\* 5.0 s; every debris effect starts with 5.0 s; a projectile that has
\* produced debris is gone when the next tick begins; and no projectile
\* produces more than one debris effect.
C3_ImpactSpawnsOneDebris ==
    /\ \A b \in DOMAIN debrisCount : debrisCount[b] <= 1
    /\ \A c \in QueuedDebris(queue) : c.comp.lifetime = DebrisLifetime
    /\ \A e \in DOMAIN debris : debris[e].lifetime <= DebrisLifetime
    /\ \A b \in DOMAIN debrisCount :
          Cardinality({e \in DOMAIN debris : debris[e].src = b})
            + Cardinality({c \in QueuedDebris(queue) : c.comp.src = b}) <= debrisCount[b]
    /\ ran = {} => \A e \in DOMAIN bullets : debrisCount[e] = 0
    /\ \A e \in DOMAIN bullets :
          ("move_bullet" \in ran /\ delta = 10 /\ bullets[e].flown = 0
             /\ AboveWall(bullets[e], 50)) =>
              /\ Despawn(BulletEntity(e)) \in Range(queue["move_bullet"])
              /\ \E c \in QueuedDebris(queue) :
                    /\ c.comp.src = e
                    /\ c.comp.translation = Vec(bullets[e].translation.x, WallHi.y)
                    /\ c.comp.lifetime = DebrisLifetime
                    /\ \A c2 \in QueuedDebris(queue) : c2.comp.src = e => c2 = c

\* C3 witness: the tick after the impact of a projectile fired 50 units above
\* the wall has begun: the projectile is gone and its debris is live at the
\* impact point with its full lifetime.
C3_Witness ==
    /\ ran = {}
    /\ \E b \in DOMAIN debrisCount :
          /\ b \notin DOMAIN bullets
          /\ debrisCount[b] = 1
          /\ \E e \in DOMAIN debris :
                /\ debris[e].src = b
                /\ debris[e].translation = Vec(0, WallHi.y)
                /\ debris[e].lifetime = DebrisLifetime

\* C4: a projectile fired from (0,0) toward (1,0), which has no obstacle on
\* its path, never registers a collision and is not alive at the start of any
\* tick once its accumulated flight time has reached 1.0 s.
C4_ExpiresAtOneSecond ==
    \A e \in DOMAIN bullets :
        (bullets[e].origin = Vec(0, 0) /\ bullets[e].aim = Vec(Scale, 0)) =>
            /\ debrisCount[e] = 0
            /\ ran = {} => bullets[e].flown < BulletLifetime

\* C5: a projectile's direction is the spawn-time vector normalize(aim) * 1500
\* (parallel to the aim, of length SPEED) throughout its life, and its position
\* is origin + direction * (sum of the frame times of its non-colliding ticks).
C5_StraightLine ==
    \A e \in DOMAIN bullets :
        LET b == bullets[e]
        IN  /\ b.dir.x * b.aim.y = b.dir.y * b.aim.x
            /\ b.dir.x * b.aim.x + b.dir.y * b.aim.y > 0
            /\ b.dir.x * b.dir.x + b.dir.y * b.dir.y = SPEED * SPEED
            /\ Second * (b.translation.x - b.origin.x) = b.dir.x * b.flown
            /\ Second * (b.translation.y - b.origin.y) = b.dir.y * b.flown

\* C5 witness: a projectile fired along a diagonal has flown two ticks of
\* different length.
C5_Witness ==
    \E e \in DOMAIN bullets :
        /\ bullets[e].flown = 30
        /\ bullets[e].dir.x # 0 /\ bullets[e].dir.y # 0
        /\ bullets[e].translation # bullets[e].origin

C7_CleanupSeesMotion ==
    ("move_bullet" \in ran /\ "cleanup" \in ran) =>
        \A e \in DOMAIN bullets :
            bullets[e].lifetime <= 0 =>
                Despawn(BulletEntity(e)) \in Range(queue["cleanup"])

\* C10: in every tick at most one destroy request is issued for any entity.
C10_AtMostOneDespawn ==
    /\ \A e \in DOMAIN bullets : DespawnRequests(BulletEntity(e)) <= 1
    /\ \A e \in DOMAIN debris : DespawnRequests(DebrisEntity(e)) <= 1

-----------------------------------------------------------------------------
(* Properties of the reflection (specification SpecReflect) *)

Near(a, b, tol) == Abs(a - b) <= tol

\* Component of d along n, and along the surface, per unit of |d| (in 1/Scale).
AlongNormal(d, n) == RoundDiv((d.x * n.x + d.y * n.y), Length(d))

AlongSurface(d, n) == RoundDiv((d.y * n.x - d.x * n.y), Length(d))

\* C8 as stated: for d = (1, -1) and n = (0, 1) the reflected direction is
\* (1, 1), and in general |r| = |d|.
C8_ReflectionKeepsMagnitude ==
    reflection # NoReflection =>
        /\ Near(Length(reflection.r), Length(reflection.d), 5)
        /\ (reflection.d = Vec(Scale, -Scale) /\ reflection.n = Vec(0, Scale)) =>
              /\ Near(reflection.r.x, Scale, 5)
              /\ Near(reflection.r.y, Scale, 5)

\* C8 amended: the reflected direction is the reflection of normalize(d): for
\* d = (1, -1) and n = (0, 1) it is (1, 1) / sqrt(2); in general its component
\* along n is minus that of normalize(d), its component along the surface is
\* that of normalize(d), and its magnitude is 1 (all within the resolution).
C8_ReflectionOfUnitDirection ==
    reflection # NoReflection =>
        LET d == reflection.d
            n == reflection.n
            r == reflection.r
        IN  /\ Near(Dot(r, n), -AlongNormal(d, n), 5)
            /\ Near(RoundDiv(r.y * n.x - r.x * n.y, Scale), AlongSurface(d, n), 5)
            /\ Near(Length(r), Scale, 5)
            /\ (d = Vec(Scale, -Scale) /\ n = Vec(0, Scale)) =>
                  /\ Near(r.x, 707, 1)
                  /\ Near(r.y, 707, 1)

\* C8 witness: the reflection of d = (1, -1) off n = (0, 1) has been computed.
C8_Witness ==
    /\ reflection.d = Vec(Scale, -Scale)
    /\ reflection.n = Vec(0, Scale)
    /\ reflection.r.x > 0 /\ reflection.r.y > 0

-----------------------------------------------------------------------------
(* Properties of the cone sampler (specification SpecCone) *)

\* C9: every emitted particle's initial velocity has a magnitude within the
\* speed range of its emission descriptor (100 to 500 for debris) and points
\* along the computed outward direction.
C9_VelocityInSpeedRange ==
    particle # NoParticle =>
        /\ Cone.speed_min <= Length3(particle.velocity)
        /\ Length3(particle.velocity) <= Cone.speed_max
        /\ particle.velocity[1] * particle.dir[2] = particle.velocity[2] * particle.dir[1]

====
